---- MODULE Spec2Model ----
(***************************************************************************)
(* Model of the INE municipal-indicator programs:                          *)
(*   src/app.py      the Streamlit script (one script run per interaction) *)
(*   src/ejemplo.py  the Tkinter program (AutocompleteEntry widget and the *)
(*                   "Calcular indicadores" button handler)                *)
(*                                                                         *)
(* Conventions                                                             *)
(*  - A Python string is a tuple of one-character strings, so that lower,  *)
(*    contains, startswith, split and zfill are computed, not assumed.     *)
(*  - A table is a sequence of rows; a row has key fields and a function   *)
(*    `cells` whose DOMAIN is the set of columns the table has.            *)
(*  - Table cells are integers read through `.values[0]`, i.e. numpy       *)
(*    scalars: a division by zero does not raise, it yields inf or nan.    *)
(*  - An indicator value is a record [k, v]: k = "None" (Python None),     *)
(*    "str" (the empty string ejemplo.py uses), "num" (v is the rounded    *)
(*    value in units of 10^-ndigits), "inf" or "nan".                      *)
(***************************************************************************)
EXTENDS Integers, Sequences, FiniteSets, TLC

\* ---------------------------------------------------------------- bounds
\* Largest value of a population total / foreign cell in the generated data.
MaxVal == 2
\* Largest value of an age-band cell in the generated data.
MaxBand == 1
\* Largest value of a cell of a joined table (census, households, housing,
\* vehicle fleet) in the generated data.
MaxJoin == 1
\* Script runs with a selection that are followed within one behaviour.
MaxRuns == 2
\* Years (columns <y>_t, <y>_h, <y>_m) of the generated historical table.
NHistYears == 2
\* Delayed hide_listbox callbacks (after(100, ...)) pending at once.
MaxPending == 2

\* ------------------------------------------------------- program constants
YEARS == <<"2024", "2023", "2022", "2021">>
age_65_plus == <<"65_69", "70_74", "75_79", "80_84", "85_89", "90_94", "95_99", "100">>
age_85_plus == <<"85_89", "90_94", "95_99", "100">>
ages_0_14 == <<"0_4", "5_9", "10_14">>
ages_15_64 == <<"15_19", "20_24", "25_29", "30_34", "35_39", "40_44", "45_49", "50_54", "55_59", "60_64">>
\* width of str.zfill(5) in the vehicle-fleet composite key
ZfillWidth == 5

\* ------------------------------------------------------------ Python str
Range(s) == {s[i] : i \in DOMAIN s}

LowerChar(c) ==
  CASE c = "A" -> "a"
    [] c = "B" -> "b"
    [] c = "C" -> "c"
    [] c = "D" -> "d"
    [] c = "X" -> "x"
    [] OTHER -> c

\* str.lower()
Lower(s) == [i \in DOMAIN s |-> LowerChar(s[i])]

\* needle in hay
StrIn(needle, hay) ==
  \E i \in 0..(Len(hay) - Len(needle)) : SubSeq(hay, i + 1, i + Len(needle)) = needle

\* Series.str.contains(pat, case=False, na=False), pat without regex
\* metacharacters (municipality keys are digits, letters and blanks)
ContainsNoCase(field, pat) == StrIn(Lower(pat), Lower(field))

\* str.startswith(prefix)
StartsWith(s, prefix) ==
  Len(prefix) <= Len(s) /\ SubSeq(s, 1, Len(prefix)) = prefix

\* str.split()[0]: the first whitespace-separated token; <<>> stands for the
\* IndexError of an all-blank string
RECURSIVE SkipBlanks(_)
SkipBlanks(s) ==
  IF s = <<>> THEN <<>>
  ELSE IF Head(s) = " " THEN SkipBlanks(Tail(s)) ELSE s

RECURSIVE TakeToken(_)
TakeToken(s) ==
  IF s = <<>> \/ Head(s) = " " THEN <<>>
  ELSE <<Head(s)>> \o TakeToken(Tail(s))

FirstToken(s) == TakeToken(SkipBlanks(s))

\* str(n) for a natural number
Digit(d) == CASE d = 0 -> "0" [] d = 1 -> "1" [] d = 2 -> "2" [] d = 3 -> "3"
              [] d = 4 -> "4" [] d = 5 -> "5" [] d = 6 -> "6" [] d = 7 -> "7"
              [] d = 8 -> "8" [] OTHER -> "9"

RECURSIVE IntToStr(_)
IntToStr(n) == IF n < 10 THEN <<Digit(n)>> ELSE IntToStr(n \div 10) \o <<Digit(n % 10)>>

\* str.zfill(width)
RECURSIVE Zfill(_, _)
Zfill(s, width) == IF Len(s) >= width THEN s ELSE Zfill(<<"0">> \o s, width)

\* ------------------------------------------------------------ arithmetic
\* n / d rounded to the nearest integer, ties to even (d > 0)
RoundDiv(n, d) ==
  LET q == n \div d
      r == n % d
  IN  IF 2 * r < d THEN q
      ELSE IF 2 * r > d THEN q + 1
      ELSE IF q % 2 = 0 THEN q ELSE q + 1

RECURSIVE Pow10(_)
Pow10(k) == IF k = 0 THEN 1 ELSE 10 * Pow10(k - 1)

NoneV == [k |-> "None", v |-> 0]
EmptyStr == [k |-> "str", v |-> 0]
Num(x) == [k |-> "num", v |-> x]
Inf(sign) == [k |-> "inf", v |-> sign]
NaN == [k |-> "nan", v |-> 0]

\* round(num / den * mult, ndigits) on numpy scalars: the division by zero
\* yields inf (nan for 0/0) and round() keeps it; otherwise the value in
\* units of 10^-ndigits
NpRound(num, den, mult, ndigits) ==
  IF den = 0
  THEN IF num = 0 THEN NaN ELSE Inf(IF num > 0 THEN 1 ELSE -1)
  ELSE Num(RoundDiv(num * mult * Pow10(ndigits), den))

\* ------------------------------------------------------------- the state
VARIABLES
  program,        \* "app" (src/app.py) or "ejemplo" (src/ejemplo.py)
  df,             \* structured_population.parquet
  df_censo,       \* structured_censo.parquet
  df_hog_2011,    \* structured_censo2011_hogares.parquet
  df_hog_2021,    \* structured_censo2021_hogares.parquet
  df_censo2011,   \* structured_censo2011_viviendas.parquet
  df_dgt,         \* dgt2023.parquet
  hist_df_raw,    \* soriaPop.parquet
  cached,         \* st.cache_data holds load_data's result
  reads,          \* per file, how many times it was read into memory
  selected_muni,  \* the selection of the last run / button click
  status,         \* how the last run / click ended
  metric,         \* app.py: the "Poblacion Total 2024" metric
  results_df,     \* app.py: the indicator table of the current run
  hist_status,    \* app.py: how the historical section ended
  hist_df,        \* app.py: the historical series charted
  tree,           \* ejemplo.py: the Treeview's rows
  tree_columns,   \* ejemplo.py: the Treeview's columns
  text,           \* AutocompleteEntry: the entry's text
  listbox,        \* AutocompleteEntry.listbox: None or its items
  cur_index,      \* AutocompleteEntry.cur_index
  curselection,   \* the listbox's selected index, -1 for none
  pending         \* hide_listbox callbacks scheduled by after(100, ...)

dataVars == <<program, df, df_censo, df_hog_2011, df_hog_2021, df_censo2011, df_dgt, hist_df_raw>>
runVars == <<cached, reads, selected_muni, status, metric, results_df, hist_status, hist_df, tree, tree_columns>>
widgetVars == <<text, listbox, cur_index, curselection, pending>>
vars == <<dataVars, runVars, widgetVars>>

\* ------------------------------------------------- municipality key strings
\* "00007 Ab": in every table of the baseline data
K1 == <<"0", "0", "0", "0", "7", " ", "A", "b">>
\* "00012 Cd": in the population table only
K2 == <<"0", "0", "0", "1", "2", " ", "C", "d">>
\* "00031 Xd": in the joined tables only, ahead of K1's rows
K3 == <<"0", "0", "0", "3", "1", " ", "X", "d">>

\* --------------------------------------------------- the population table
\* f"total_{age}_{sex}_{year}"
PopCol(age, sex, year) == <<"total", age, sex, year>>

AllBands == Range(ages_0_14) \cup Range(ages_15_64) \cup Range(age_65_plus)

YearIdx(year) == CHOOSE i \in DOMAIN YEARS : YEARS[i] = year

\* A cell of the generated data: -1 stands for "the table has no such column".
Cell == -1 .. MaxVal
BandVal == 0 .. MaxBand

\* The sets of age-band columns a generated year can lack.
MissingChoices ==
  << {}, {"65_69"}, Range(age_85_plus), Range(age_65_plus), Range(ages_15_64), {"0_4"} >>

\* The generated row of K1: per year index i, tot[i] and ex[i] are the cells
\* total_total_total_<y> and total_total_EX_<y>, g0/g15/g65/g85[i] the value of
\* every band of the group 0-14 / 15-64 / 65-84 / 85+, and miss[i] the bands
\* whose column the table lacks for that year.
BandGroupValue(p, age, i) ==
  IF age \in Range(ages_0_14) THEN p.g0[i]
  ELSE IF age \in Range(ages_15_64) THEN p.g15[i]
  ELSE IF age \in Range(age_85_plus) THEN p.g85[i]
  ELSE p.g65[i]

PopColumns(p) ==
  {PopCol("total", "total", YEARS[i]) : i \in {j \in DOMAIN YEARS : p.tot[j] # -1}}
  \cup {PopCol("total", "EX", YEARS[i]) : i \in {j \in DOMAIN YEARS : p.ex[j] # -1}}
  \cup UNION {{PopCol(a, "total", YEARS[i]) : a \in AllBands \ p.miss[i]} : i \in DOMAIN YEARS}

PopValue(p, c) ==
  LET i == YearIdx(c[4])
  IN  IF c[2] = "total" THEN (IF c[3] = "EX" THEN p.ex[i] ELSE p.tot[i])
      ELSE BandGroupValue(p, c[2], i)

\* two rows: K1 with the generated cells, K2 with 1 in every column
PopTable(p) ==
  << [municipio |-> K1, cells |-> [c \in PopColumns(p) |-> PopValue(p, c)]],
     [municipio |-> K2, cells |-> [c \in PopColumns(p) |-> 1]] >>

\* Year i's configuration is the base configuration rotated by i - 1, so the
\* four years of one table differ and each year meets every configuration;
\* the foreign cell and the 0-14 bands rotate twice as fast as the total and
\* the 15-64 bands, so the pairs (total, foreign) and (0-14, 15-64) vary too.
RotCell(c, k) == ((c + 1 + k) % (MaxVal + 2)) - 1
RotBand(b, k) == (b + k) % (MaxBand + 1)
RotMiss(m, k) == MissingChoices[((m - 1 + k) % Len(MissingChoices)) + 1]

PopParams(t, b, c, d, m) ==
  [tot  |-> [i \in DOMAIN YEARS |-> RotCell(t, i - 1)],
   ex   |-> [i \in DOMAIN YEARS |-> RotCell(t, 2 * (i - 1))],
   g0   |-> [i \in DOMAIN YEARS |-> RotBand(b, 2 * (i - 1) + 1)],
   g15  |-> [i \in DOMAIN YEARS |-> RotBand(b, i - 1)],
   g65  |-> [i \in DOMAIN YEARS |-> RotBand(c, i - 1)],
   g85  |-> [i \in DOMAIN YEARS |-> RotBand(d, i - 1)],
   miss |-> [i \in DOMAIN YEARS |-> RotMiss(m, i - 1)]]

\* the baseline population: every column present, every cell 1, except that
\* total_total_total_2024 and total_total_total_2021 are t24 and t21
BasePop(t24, t21) ==
  [tot  |-> [i \in DOMAIN YEARS |-> IF YEARS[i] = "2024" THEN t24
                                    ELSE IF YEARS[i] = "2021" THEN t21 ELSE 1],
   ex   |-> [i \in DOMAIN YEARS |-> 1],
   g0   |-> [i \in DOMAIN YEARS |-> 1],
   g15  |-> [i \in DOMAIN YEARS |-> 1],
   g65  |-> [i \in DOMAIN YEARS |-> 1],
   g85  |-> [i \in DOMAIN YEARS |-> 1],
   miss |-> [i \in DOMAIN YEARS |-> {}]]

\* ------------------------------------------------------ the joined tables
\* A generated joined table: a row of K3 first, then (unless absent) the row
\* of K1; `cols` maps each value column to K1's cell, -1 for a column the
\* table lacks.  Rows are functions from column names to values.
JCell == -1 .. MaxJoin
Absent == "absent"

Restrict(f, S) == [x \in S |-> f[x]]
Present(cols) == {c \in DOMAIN cols : cols[c] # -1}

JoinedTable(keycol, key1, cols) ==
  LET other == (keycol :> K3) @@ [c \in Present(cols) |-> 1]
  IN  IF key1 = Absent THEN << other >>
      ELSE << other, (keycol :> key1) @@ Restrict(cols, Present(cols)) >>

CensoTable(present, t, nop) ==
  JoinedTable("Municipio de residencia", IF present THEN K1 ELSE Absent,
              ("viviendasT" :> t) @@ ("viviendasNoP" :> nop))

HogTable(present, n) ==
  JoinedTable("municipio", IF present THEN K1 ELSE Absent, ("nHogares" :> n))

Censo2011Table(present, total, vacias) ==
  JoinedTable("Municipio de residencia", IF present THEN K1 ELSE Absent,
              ("viviendasTotal" :> total) @@ ("viviendasVacias" :> vacias))

\* the vehicle-fleet file keys its rows by an integer code and an upper-case
\* name: 7, "AB" for K1 and 31, "XD" for K3
DgtTable(present, tur, mot, tot) ==
  LET cols == ("Parque Turismos" :> tur) @@ ("Parque Motocicletas" :> mot)
              @@ ("Parque Total" :> tot)
      row(code, name, f) == ("Código INE" :> code) @@ ("Municipio" :> name) @@ f
  IN  << row(31, <<"X", "D">>, [c \in Present(cols) |-> 1]) >>
      \o (IF present THEN << row(7, <<"A", "B">>, Restrict(cols, Present(cols))) >>
          ELSE << >>)

\* -------------------------------------------------- the historical table
HistYears == 1 .. NHistYears
HistSuffix == <<"_t", "_h", "_m">>
\* the column f"{1900 + 10*y}{suffix}" of the long-run table
HistCol(y, suffix) == <<1900 + 10 * y, suffix>>
\* a cell holding a blank or whitespace-only string
Blank == -1
\* the number the non-blank cell of the column of `year` holds: distinct per
\* column
HistNumber(year, suffix) ==
  (year - 1900) + (CASE suffix = "_t" -> 3 [] suffix = "_h" -> 1 [] OTHER -> 2)

\* `order`: the years in the table's column order; `filled`: the columns whose
\* cell is a number (the others hold a blank string).  A second row, of a
\* municipality whose name contains K1's, follows K1's.
HistColumns(order) ==
  [i \in 1 .. (3 * Len(order)) |-> HistCol(order[((i - 1) \div 3) + 1], HistSuffix[((i - 1) % 3) + 1])]

HistTable(order, filled) ==
  << [municipio |-> K1, columns |-> HistColumns(order),
      cells |-> [c \in Range(HistColumns(order)) |->
                   IF c \in filled THEN HistNumber(c[1], c[2]) ELSE Blank]],
     [municipio |-> K1 \o <<"x">>, columns |-> HistColumns(order),
      cells |-> [c \in Range(HistColumns(order)) |-> 99]] >>

Perms(S) == {f \in [1 .. Cardinality(S) -> S] : \A a \in S : \E i \in DOMAIN f : f[i] = a}

\* ------------------------------------------------------ pandas primitives
Ok(x) == [exc |-> FALSE, val |-> x]
Raise == [exc |-> TRUE, val |-> 0]

\* frame[col].values[0] on a filtered joined table: KeyError when the table
\* has no such column, IndexError when no row matched
Values0(rows, col) ==
  IF rows = << >> THEN Raise
  ELSE IF col \notin DOMAIN rows[1] THEN Raise
  ELSE Ok(rows[1][col])

\* pop_df[col].values[0]: KeyError when the population table lacks the column
PopValues0(pop_df, col) ==
  IF col \in DOMAIN pop_df[1].cells THEN Ok(pop_df[1].cells[col]) ELSE Raise

\* faulty variant of PopGetOr0: pop_df[col].values[0], which raises KeyError when the
\* column is missing
PopGetStrict(pop_df, col) ==
  IF col \in DOMAIN pop_df[1].cells THEN Ok(pop_df[1].cells[col]) ELSE Raise

\* pop_df.get(col, pd.Series([0])).values[0]: never raises
PopGetOr0(pop_df, col) ==
  IF col \in DOMAIN pop_df[1].cells THEN Ok(pop_df[1].cells[col]) ELSE Ok(0)

\* faulty variant of SumBands: the last band of the list is left out of the sum
RECURSIVE SumBandsNoLast(_, _, _)
SumBandsNoLast(pop_df, ages, year) ==
  IF Len(ages) <= 1 THEN 0
  ELSE (IF PopCol(Head(ages), "total", year) \in DOMAIN pop_df[1].cells
        THEN pop_df[1].cells[PopCol(Head(ages), "total", year)] ELSE 0)
       + SumBandsNoLast(pop_df, Tail(ages), year)

\* pop_df[[f"total_{age}_total_{year}" for age in ages
\*         if f"total_{age}_total_{year}" in pop_df.columns]].sum(axis=1).values[0]
RECURSIVE SumBands(_, _, _)
SumBands(pop_df, ages, year) ==
  IF ages = << >> THEN 0
  ELSE (IF PopCol(Head(ages), "total", year) \in DOMAIN pop_df[1].cells
        THEN pop_df[1].cells[PopCol(Head(ages), "total", year)] ELSE 0)
       + SumBands(pop_df, Tail(ages), year)

\* faulty variant of PctOrAbsent: the `if den else` guard is forgotten
PctUnguarded(num, den, absent) == NpRound(num, den, 100, 2)

\* round(num / den * 100, 2) if den else <absent>
PctOrAbsent(num, den, absent) ==
  IF den # 0 THEN NpRound(num, den, 100, 2) ELSE absent

\* ------------------------------------------------------------- resolver
\* df[df["municipio"] == selected_muni]
PopRows(muni) == SelectSeq(df, LAMBDA r : r.municipio = muni)

\* table[table[keycol].str.contains(selected_muni, case=False, na=False)]
RowsContaining(table, keycol, muni) ==
  SelectSeq(table, LAMBDA r : ContainsNoCase(r[keycol], muni))

\* df_censo[df_censo["Municipio de residencia"].str.startswith(muni_code)]
RowsStartingWith(table, keycol, code) ==
  SelectSeq(table, LAMBDA r : StartsWith(r[keycol], code))

\* df_dgt["municipio_completo"] =
\*   df_dgt["Código INE"].astype(str).str.zfill(5) + " " + df_dgt["Municipio"]
WithMunicipioCompleto(table) ==
  [i \in DOMAIN table |->
     ("municipio_completo" :>
        (Zfill(IntToStr(table[i]["Código INE"]), ZfillWidth) \o <<" ">> \o table[i]["Municipio"]))
     @@ table[i]]

\* df_dgt[df_dgt["municipio_completo"].str.lower() == selected_muni.lower()]
DgtRows(table, muni) ==
  SelectSeq(WithMunicipioCompleto(table),
            LAMBDA r : Lower(r["municipio_completo"]) = Lower(muni))

\* sorted(df["municipio"].dropna().unique(), key=str.lower), as a set
municipalities == {df[i].municipio : i \in DOMAIN df}

\* ------------------------------------------- app.py: one-off indicators
\* try: ... var_hogares_pct = round((n_hog_2021 - n_hog_2011) / n_hog_2011 * 100, 2)
\* except: var_hogares_pct = None
VarHogaresPct(hog_2011, hog_2021) ==
  LET n_hog_2011 == Values0(hog_2011, "nHogares")
      n_hog_2021 == Values0(hog_2021, "nHogares")
  IN  IF n_hog_2011.exc \/ n_hog_2021.exc THEN NoneV
      ELSE NpRound(n_hog_2021.val - n_hog_2011.val, n_hog_2011.val, 100, 2)

CrecimientoViviendasPct(viv_2011, censo_df) ==
  LET n_viv_2011 == Values0(viv_2011, "viviendasTotal")
      n_viv_2021 == Values0(censo_df, "viviendasT")
  IN  IF n_viv_2011.exc \/ n_viv_2021.exc THEN NoneV
      ELSE NpRound(n_viv_2021.val - n_viv_2011.val, n_viv_2011.val, 100, 2)

\* n_viv_2011 is the name the previous try-block binds: unbound (NameError,
\* swallowed by the bare except) when its first statement raised
VivVaciaPct2011(viv_2011) ==
  LET n_viv_vacias_2011 == Values0(viv_2011, "viviendasVacias")
      n_viv_2011 == Values0(viv_2011, "viviendasTotal")
  IN  IF n_viv_vacias_2011.exc \/ n_viv_2011.exc THEN NoneV
      ELSE NpRound(n_viv_vacias_2011.val, n_viv_2011.val, 100, 2)

\* the vehicle try-block: the four lookups, then the three guarded formulas;
\* any lookup that raises leaves all three None
VehicleIndicators(dgt_row, pop_df) ==
  LET turismos == Values0(dgt_row, "Parque Turismos")
      motos == Values0(dgt_row, "Parque Motocicletas")
      total_veh == Values0(dgt_row, "Parque Total")
      pop_2024 == PopValues0(pop_df, PopCol("total", "total", "2024"))
  IN  IF turismos.exc \/ motos.exc \/ total_veh.exc \/ pop_2024.exc
      THEN [veh_1000hab |-> NoneV, pct_turismos |-> NoneV, pct_motos |-> NoneV]
      ELSE [veh_1000hab |->
              IF pop_2024.val # 0
              THEN NpRound(turismos.val + motos.val, pop_2024.val, 1000, 2) ELSE NoneV,
            pct_turismos |-> PctOrAbsent(turismos.val, total_veh.val, NoneV),
            pct_motos |-> PctOrAbsent(motos.val, total_veh.val, NoneV)]

\* ------------------------------------------------ the per-year row
\* The six population indicators of the row of `year`.  These statements are
\* outside any try-block: [exc |-> TRUE] is an exception that leaves the loop.
BaseRow(pop_df, year, absent) ==
  LET total == PopGetOr0(pop_df, PopCol("total", "total", year))
      over_65 == SumBands(pop_df, age_65_plus, year)
      over_85 == SumBands(pop_df, age_85_plus, year)
      foreign == PopGetOr0(pop_df, PopCol("total", "EX", year))
      pop_0_14 == SumBands(pop_df, ages_0_14, year)
      pop_15_64 == SumBands(pop_df, ages_15_64, year)
  IN  IF total.exc \/ foreign.exc THEN [exc |-> TRUE, row |-> << >>]
      ELSE [exc |-> FALSE,
            row |->
              ("Año" :> year)
              @@ ("D.22.a. Envejecimiento (%)" :> PctOrAbsent(over_65, total.val, absent))
              @@ ("D.22.b. Senectud (%)" :> PctOrAbsent(over_85, over_65, absent))
              @@ ("Población extranjera (%)" :> PctOrAbsent(foreign.val, total.val, absent))
              @@ ("D.24.a. Dependencia total (%)" :>
                    PctOrAbsent(pop_0_14 + over_65, pop_15_64, absent))
              @@ ("D.24.b. Dependencia infantil (%)" :> PctOrAbsent(pop_0_14, pop_15_64, absent))
              @@ ("D.24.c. Dependencia mayores (%)" :> PctOrAbsent(over_65, pop_15_64, absent))
              @@ ("%Vivienda secundaria" :> absent)
              @@ ("D.25 Viviendas por persona" :> absent)]

\* if year == "2021": try: ... except: pass
\* the three lookups come first, so one that raises leaves both fields as
\* they were; the two divisions are numpy's and do not raise
Housing2021(row, censo_df, pop_df) ==
  LET v_total == Values0(censo_df, "viviendasT")
      v_nop == Values0(censo_df, "viviendasNoP")
      pop_2021 == PopValues0(pop_df, PopCol("total", "total", "2021"))
  IN  IF v_total.exc \/ v_nop.exc \/ pop_2021.exc THEN row
      ELSE [row EXCEPT !["%Vivienda secundaria"] = NpRound(v_nop.val, v_total.val, 100, 2),
                       !["D.25 Viviendas por persona"] = NpRound(v_total.val, pop_2021.val, 1000, 4)]

\* faulty variant of Gate: the year test is forgotten
GateAlways(value, year, gate) == value

\* value if year == gate else None
Gate(value, year, gate) == IF year = gate THEN value ELSE NoneV

\* app.py's row: the base row plus the six gated one-off fields, then the
\* 2021 housing block
AppRow(pop_df, censo_df, one, veh, year) ==
  LET base == BaseRow(pop_df, year, NoneV)
      row == base.row
             @@ ("VARIACIÓN HOGARES 2011-2021 (%)" :> Gate(one.var_hogares_pct, year, "2021"))
             @@ ("CRECIMIENTO PARQUE VIVIENDAS 2011-2021 (%)" :>
                   Gate(one.crecimiento_viviendas_pct, year, "2021"))
             @@ ("VIVIENDA VACÍA 2011 (%)" :> Gate(one.viv_vacia_pct_2011, year, "2021"))
             @@ ("D.18.a. Vehículos domiciliados cada 1000 hab." :> Gate(veh.veh_1000hab, year, "2024"))
             @@ ("D.18.b. % Turismos" :> Gate(veh.pct_turismos, year, "2023"))
             @@ ("D.18.c. % Motocicletas" :> Gate(veh.pct_motos, year, "2023"))
  IN  IF base.exc THEN base
      ELSE [exc |-> FALSE,
            row |-> IF year = "2021" THEN Housing2021(row, censo_df, pop_df) ELSE row]

\* ejemplo.py's row
EjemploRow(pop_df, censo_df, year) ==
  LET base == BaseRow(pop_df, year, EmptyStr)
  IN  IF base.exc THEN base
      ELSE [exc |-> FALSE,
            row |-> IF year = "2021" THEN Housing2021(base.row, censo_df, pop_df)
                    ELSE base.row]

\* for year in YEARS: ... results.append(row); an exception ends the build
BuildResults(rows) ==
      IF \E i \in DOMAIN rows : rows[i].exc THEN [exc |-> TRUE, rows |-> << >>]
      ELSE [exc |-> FALSE, rows |-> [i \in DOMAIN rows |-> rows[i].row]]

\* results of app.py lines 78-161 for a selection with a population row
AppResults(muni) ==
  LET pop_df == PopRows(muni)
      censo_df == RowsContaining(df_censo, "Municipio de residencia", muni)
      hog_2011 == RowsContaining(df_hog_2011, "municipio", muni)
      hog_2021 == RowsContaining(df_hog_2021, "municipio", muni)
      viv_2011 == RowsContaining(df_censo2011, "Municipio de residencia", muni)
      one == [var_hogares_pct |-> VarHogaresPct(hog_2011, hog_2021),
              crecimiento_viviendas_pct |-> CrecimientoViviendasPct(viv_2011, censo_df),
              viv_vacia_pct_2011 |-> VivVaciaPct2011(viv_2011)]
      veh == VehicleIndicators(DgtRows(df_dgt, muni), pop_df)
  IN  BuildResults([i \in DOMAIN YEARS |-> AppRow(pop_df, censo_df, one, veh, YEARS[i])])

\* results of ejemplo.py lines 125-160; muni.split()[0] raises IndexError on
\* an all-blank string
EjemploResults(muni) ==
  LET pop_df == PopRows(muni)
      muni_code == FirstToken(muni)
      censo_df == RowsStartingWith(df_censo, "Municipio de residencia", muni_code)
  IN  IF muni_code = << >> THEN [exc |-> TRUE, rows |-> << >>]
      ELSE BuildResults([i \in DOMAIN YEARS |-> EjemploRow(pop_df, censo_df, YEARS[i])])

\* ------------------------------------------- app.py: historical series
\* clean_series(hist_row.filter(like=suffix)).dropna(): the columns whose name
\* holds the suffix and whose cell is a number, in column order
CleanSeries(hist_row, suffix) ==
  SelectSeq(hist_row.columns,
            LAMBDA c : c[2] = suffix /\ hist_row.cells[c] # Blank)

\* extract_years: int(col.split("_")[0])
extract_years(series) == [i \in DOMAIN series |-> series[i][1]]

\* DataFrame.sort_values("Año") on rows with distinct years
RECURSIVE SortByYear(_)
SortByYear(rows) ==
  IF rows = << >> THEN << >>
  ELSE LET i == CHOOSE j \in DOMAIN rows : \A k \in DOMAIN rows : rows[j].year <= rows[k].year
       IN  << rows[i] >> \o SortByYear(SubSeq(rows, 1, i - 1) \o SubSeq(rows, i + 1, Len(rows)))

\* the historical section for a matching row: the three cleaned series are put
\* side by side BY POSITION; pd.DataFrame raises ValueError when a non-empty
\* series differs in length from the years, which the outer except reports
HistSeries(hist_row) ==
  LET pop_t == CleanSeries(hist_row, "_t")
      pop_h == CleanSeries(hist_row, "_h")
      pop_m == CleanSeries(hist_row, "_m")
      years == extract_years(pop_t)
      col(series, i) == IF Len(series) = 0 THEN NoneV ELSE Num(hist_row.cells[series[i]])
  IN  IF (Len(pop_h) # 0 /\ Len(pop_h) # Len(years))
         \/ (Len(pop_m) # 0 /\ Len(pop_m) # Len(years))
      THEN [status |-> "error", rows |-> << >>]
      ELSE [status |-> "ok",
            rows |-> SortByYear([i \in DOMAIN years |->
                       [year |-> years[i],
                        Total |-> Num(hist_row.cells[pop_t[i]]),
                        Hombres |-> col(pop_h, i),
                        Mujeres |-> col(pop_m, i)]])]

\* lines 168-202
Historical(muni) ==
  LET hist_row == SelectSeq(hist_df_raw, LAMBDA r : ContainsNoCase(r.municipio, muni))
  IN  IF hist_row = << >> THEN [status |-> "nodata", rows |-> << >>]
      ELSE HistSeries(hist_row[1])

\* ------------------------------------------------------------ the files
LoadDataFiles ==
  {"structured_population.parquet", "structured_censo.parquet",
   "structured_censo2011_hogares.parquet", "structured_censo2021_hogares.parquet",
   "structured_censo2011_viviendas.parquet", "dgt2023.parquet"}
HistFile == "soriaPop.parquet"
Files == LoadDataFiles \cup {HistFile}
\* ejemplo.py reads these two at import
EjemploFiles == {"structured_population.parquet", "structured_censo.parquet"}

\* pd.read_parquet(file) for every file of S
ReadAll(r, S) == [f \in Files |-> IF f \in S THEN r[f] + 1 ELSE r[f]]

\* @st.cache_data load_data(): the body runs only when nothing is cached
LoadData(r, isCached) == IF isCached THEN r ELSE ReadAll(r, LoadDataFiles)

\* the read of soriaPop.parquet at line 169, in every run with a selection
ReadHistorical(r) == ReadAll(r, {HistFile})

\* -------------------------------------------------- app.py: a script run
\* col2: the metric of the selection's 2024 population; try/except: pass
Metric(muni) ==
  LET rows == PopRows(muni)
      c == PopCol("total", "total", "2024")
  IN  IF rows = << >> THEN NoneV
      ELSE IF c \notin DOMAIN rows[1].cells THEN NoneV
      ELSE IF rows[1].cells[c] # 0 THEN Num(rows[1].cells[c])
      ELSE [k |-> "str", v |-> 1]

\* the options of the selectbox for a search term
Options(search_term) ==
  IF search_term # << >>
  THEN {m \in municipalities : StrIn(Lower(search_term), Lower(m))}
  ELSE municipalities

\* One run of the script: Streamlit reruns it top to bottom on every
\* interaction; selected_muni = << >> is "nothing selected" (None).
AppRun(search_term, muni) ==
  LET res == AppResults(muni)
      hist == Historical(muni)
  IN
  /\ program = "app"
  /\ muni \in Options(search_term) \cup {<< >>}
  /\ muni # << >> => reads[HistFile] < MaxRuns
  /\ cached' = TRUE
  /\ selected_muni' = muni
  /\ metric' = IF muni # << >> THEN Metric(muni) ELSE NoneV
  /\ tree' = tree
  /\ tree_columns' = tree_columns
  /\ IF muni = << >>
     THEN /\ status' = "noselection"
          /\ results_df' = << >>
          /\ hist_status' = "none"
          /\ hist_df' = << >>
          /\ reads' = LoadData(reads, cached)
     ELSE IF PopRows(muni) = << >>
     THEN /\ status' = "notfound"
          /\ results_df' = << >>
          /\ hist_status' = "none"
          /\ hist_df' = << >>
          /\ reads' = LoadData(reads, cached)
     ELSE IF res.exc
     THEN /\ status' = "raised"
          /\ results_df' = << >>
          /\ hist_status' = "none"
          /\ hist_df' = << >>
          /\ reads' = LoadData(reads, cached)
     ELSE /\ status' = "ok"
          /\ results_df' = res.rows
          /\ hist_status' = hist.status
          /\ hist_df' = hist.rows
          /\ reads' = ReadHistorical(LoadData(reads, cached))
  /\ UNCHANGED <<dataVars, widgetVars>>

\* ----------------------------------- ejemplo.py: calculate_indicators
\* faulty variant of ClearTree: the old rows are not deleted
KeepTree(t) == t

\* for i in tree.get_children(): tree.delete(i)
ClearTree(t) == << >>

\* the button handler; muni is selected_muni.get(), the entry's text
calculate_indicators(muni) ==
  LET res == EjemploResults(muni)
  IN
  /\ program = "ejemplo"
  /\ selected_muni' = muni
  /\ IF PopRows(muni) = << >>
     THEN /\ status' = "notfound"
          /\ tree' = ClearTree(tree)
          /\ tree_columns' = tree_columns
     ELSE IF res.exc
     THEN /\ status' = "raised"
          /\ tree' = ClearTree(tree)
          /\ tree_columns' = tree_columns
     ELSE /\ status' = "ok"
          /\ tree' = ClearTree(tree) \o res.rows
          /\ tree_columns' = DOMAIN res.rows[1]
  /\ UNCHANGED <<dataVars, widgetVars, cached, reads, metric, results_df, hist_status, hist_df>>

\* ------------------------------------ ejemplo.py: AutocompleteEntry
NoListbox == [exists |-> FALSE, items |-> << >>]

\* the code point order of the characters the keys are made of
CharOrd(c) ==
  CASE c = " " -> 0
    [] c \in {Digit(d) : d \in 0 .. 9} -> 1 + (CHOOSE d \in 0 .. 9 : Digit(d) = c)
    [] c = "a" -> 11 [] c = "b" -> 12 [] c = "c" -> 13 [] c = "d" -> 14
    [] c = "x" -> 15 [] OTHER -> 16

\* x < y for Python strings
StrLess(x, y) ==
  \/ Len(x) < Len(y) /\ SubSeq(y, 1, Len(x)) = x
  \/ \E i \in 1 .. Len(x) :
       /\ i <= Len(y)
       /\ SubSeq(x, 1, i - 1) = SubSeq(y, 1, i - 1)
       /\ CharOrd(x[i]) < CharOrd(y[i])

\* sorted(suggestion_list, key=str.lower)
RECURSIVE SortedSeq(_)
SortedSeq(S) ==
  IF S = {} THEN << >>
  ELSE LET m == CHOOSE x \in S : \A y \in S \ {x} : StrLess(Lower(x), Lower(y))
       IN  << m >> \o SortedSeq(S \ {m})

suggestion_list == SortedSeq(municipalities)

\* hide_listbox
HideListbox(lb) == NoListbox

\* show_listbox(matches): the old listbox is destroyed, the new one holds the
\* matches, nothing selected, and cur_index is reset
ShowListbox(matches) == [exists |-> TRUE, items |-> matches]

\* An edit of the entry followed by <KeyRelease>: check_key with a keysym
\* other than Up, Down, Return; t is the text after the edit.
check_key(t) ==
  LET value == Lower(t)
      matches == SelectSeq(suggestion_list, LAMBDA item : StrIn(value, Lower(item)))
  IN  /\ program = "ejemplo"
      /\ text' = t
      /\ IF value = << >> \/ matches = << >>
         THEN /\ listbox' = HideListbox(listbox)
              /\ cur_index' = cur_index
              /\ curselection' = -1
         ELSE /\ listbox' = ShowListbox(matches)
              /\ cur_index' = -1
              /\ curselection' = -1
      /\ UNCHANGED <<dataVars, runVars, pending>>

\* (cur_index + 1) % self.listbox.size()
DownIndex(cur, size) == (cur + 1) % size
\* faulty variant of UpIndex: the modulo is forgotten
UpIndexNoWrap(cur, size) == cur - 1

\* (cur_index - 1) % self.listbox.size()
UpIndex(cur, size) == (cur - 1) % size

\* <Down>, and the <KeyRelease> that follows it (check_key returns at once)
move_down ==
  /\ program = "ejemplo"
  /\ IF ~listbox.exists THEN UNCHANGED <<cur_index, curselection>>
     ELSE /\ cur_index' = DownIndex(cur_index, Len(listbox.items))
          /\ curselection' = cur_index'
  /\ UNCHANGED <<dataVars, runVars, text, listbox, pending>>

\* <Up>
move_up ==
  /\ program = "ejemplo"
  /\ IF ~listbox.exists THEN UNCHANGED <<cur_index, curselection>>
     ELSE /\ cur_index' = UpIndex(cur_index, Len(listbox.items))
          /\ curselection' = cur_index'
  /\ UNCHANGED <<dataVars, runVars, text, listbox, pending>>

\* select_from_listbox with the listbox's selection sel: IndexError (nothing
\* selected) is swallowed, then the listbox is hidden
SelectFromListbox(sel) ==
  IF ~listbox.exists THEN UNCHANGED <<text, listbox, curselection>>
  ELSE /\ text' = IF sel = -1 THEN text ELSE listbox.items[sel + 1]
       /\ listbox' = HideListbox(listbox)
       /\ curselection' = -1

\* <Return>
select_from_listbox ==
  /\ program = "ejemplo"
  /\ SelectFromListbox(curselection)
  /\ UNCHANGED <<dataVars, runVars, cur_index, pending>>

\* a click on item i of the listbox: <<ListboxSelect>> with i selected
on_click_select(i) ==
  /\ program = "ejemplo"
  /\ listbox.exists
  /\ i \in 0 .. (Len(listbox.items) - 1)
  /\ SelectFromListbox(i)
  /\ UNCHANGED <<dataVars, runVars, cur_index, pending>>

\* <FocusOut>: self.after(100, self.hide_listbox)
FocusOut ==
  /\ program = "ejemplo"
  /\ pending < MaxPending
  /\ pending' = pending + 1
  /\ UNCHANGED <<dataVars, runVars, text, listbox, cur_index, curselection>>

\* the scheduled hide_listbox fires
DelayedHide ==
  /\ program = "ejemplo"
  /\ pending > 0
  /\ pending' = pending - 1
  /\ listbox' = HideListbox(listbox)
  /\ curselection' = -1
  /\ UNCHANGED <<dataVars, runVars, text, cur_index>>

\* -------------------------------------------------------- generated data
BaseCenso == CensoTable(TRUE, 1, 1)
BaseHog == HogTable(TRUE, 1)
BaseCenso2011 == Censo2011Table(TRUE, 1, 1)
BaseDgt == DgtTable(TRUE, 1, 1, 1)
BaseHist ==
  HistTable([i \in HistYears |-> i], {HistCol(y, x) : y \in HistYears, x \in Range(HistSuffix)})

Data(p, c, h11, h21, v, d, h) ==
  [df |-> PopTable(p), df_censo |-> c, df_hog_2011 |-> h11, df_hog_2021 |-> h21,
   df_censo2011 |-> v, df_dgt |-> d, hist_df_raw |-> h]

BaseData(p) == Data(p, BaseCenso, BaseHog, BaseHog, BaseCenso2011, BaseDgt, BaseHist)

CensoTables ==
  {CensoTable(FALSE, 1, 1)} \cup {CensoTable(TRUE, t, n) : t \in JCell, n \in JCell}
HogTables == {HogTable(FALSE, 1)} \cup {HogTable(TRUE, n) : n \in JCell}
Censo2011Tables ==
  {Censo2011Table(FALSE, 1, 1)} \cup {Censo2011Table(TRUE, t, n) : t \in JCell, n \in JCell}
DgtTables ==
  {DgtTable(FALSE, 1, 1, 1)}
  \cup {DgtTable(TRUE, t, m, a) : t \in JCell, m \in JCell, a \in JCell}

HistColumnSets == SUBSET {HistCol(y, x) : y \in HistYears, x \in Range(HistSuffix)}

\* ------------------------------------------------------------ the start
\* app.py: the server is up and no script run has happened yet
InitApp(d) ==
  /\ program = "app"
  /\ df = d.df /\ df_censo = d.df_censo
  /\ df_hog_2011 = d.df_hog_2011 /\ df_hog_2021 = d.df_hog_2021
  /\ df_censo2011 = d.df_censo2011 /\ df_dgt = d.df_dgt
  /\ hist_df_raw = d.hist_df_raw
  /\ cached = FALSE
  /\ reads = [f \in Files |-> 0]
  /\ selected_muni = << >> /\ status = "idle" /\ metric = NoneV
  /\ results_df = << >> /\ hist_status = "none" /\ hist_df = << >>
  /\ tree = << >> /\ tree_columns = {}
  /\ text = << >> /\ listbox = NoListbox /\ cur_index = -1 /\ curselection = -1
  /\ pending = 0

\* ejemplo.py: the module has read its two files and built the window
InitEjemplo(d) ==
  /\ program = "ejemplo"
  /\ df = d.df /\ df_censo = d.df_censo
  /\ df_hog_2011 = << >> /\ df_hog_2021 = << >>
  /\ df_censo2011 = << >> /\ df_dgt = << >>
  /\ hist_df_raw = << >>
  /\ cached = FALSE
  /\ reads = [f \in Files |-> IF f \in EjemploFiles THEN 1 ELSE 0]
  /\ selected_muni = << >> /\ status = "idle" /\ metric = NoneV
  /\ results_df = << >> /\ hist_status = "none" /\ hist_df = << >>
  /\ tree = << >> /\ tree_columns = {}
  /\ text = << >> /\ listbox = NoListbox /\ cur_index = -1 /\ curselection = -1
  /\ pending = 0

\* The generated data sets.  One group of tables varies at a time, the others
\* stay at the baseline:
\*  - the population's total columns and missing bands (every band cell 1);
\*  - the census and 2011 housing tables with the 2021 population;
\*  - the two household tables;
\*  - the vehicle fleet with the 2024 population;
\*  - every combination of joined records present or missing.
InitAppData ==
  \/ \E t \in Cell, m \in DOMAIN MissingChoices :
       InitApp(BaseData(PopParams(t, 1, 1, 1, m)))
  \/ \E t21 \in Cell, c \in CensoTables, v \in Censo2011Tables :
       InitApp(Data(BasePop(1, t21), c, BaseHog, BaseHog, v, BaseDgt, BaseHist))
  \/ \E h11 \in HogTables, h21 \in HogTables :
       InitApp(Data(BasePop(1, 1), BaseCenso, h11, h21, BaseCenso2011, BaseDgt, BaseHist))
  \/ \E t24 \in Cell, d \in DgtTables :
       InitApp(Data(BasePop(t24, 1), BaseCenso, BaseHog, BaseHog, BaseCenso2011, d, BaseHist))
  \/ \E c \in BOOLEAN, h11 \in BOOLEAN, h21 \in BOOLEAN, v \in BOOLEAN, d \in BOOLEAN :
       InitApp(Data(BasePop(1, 1), CensoTable(c, 1, 1), HogTable(h11, 1), HogTable(h21, 1),
                    Censo2011Table(v, 1, 1), DgtTable(d, 1, 1, 1), BaseHist))

\* ejemplo.py loads the population and the census tables only
InitEjemploData ==
  \/ \E t \in Cell, m \in DOMAIN MissingChoices :
       InitEjemplo(BaseData(PopParams(t, 1, 1, 1, m)))
  \/ \E t21 \in Cell, c \in CensoTables :
       InitEjemplo(Data(BasePop(1, t21), c, BaseHog, BaseHog, BaseCenso2011, BaseDgt, BaseHist))

Init == InitAppData \/ InitEjemploData

\* the population varies in full, the joined tables are the baseline
InitPop ==
  \E t \in Cell, b \in BandVal, c \in BandVal, d \in BandVal, m \in DOMAIN MissingChoices :
    \/ InitApp(BaseData(PopParams(t, b, c, d, m)))
    \/ InitEjemplo(BaseData(PopParams(t, b, c, d, m)))

\* the historical table varies: its column order and which cells are blank
InitHist ==
  \E o \in Perms(HistYears), f \in HistColumnSets :
    InitApp(Data(BasePop(1, 1), BaseCenso, BaseHog, BaseHog, BaseCenso2011, BaseDgt,
                 HistTable(o, f)))

InitWidget == InitEjemplo(BaseData(BasePop(1, 1)))

\* ------------------------------------------------------------ the inputs
\* search terms typed into the Streamlit search box: "", "ab", "zz"
SearchTerms == {<< >>, <<"a", "b">>, <<"z", "z">>}
\* texts the Tk entry can hold when the button is clicked
EntryTexts == {K1, K2, K3, Lower(K1), <<"0", "0", "0", "0", "7">>, << >>}
\* texts an edit of the Tk entry can leave
TypedTexts == {<< >>, <<"0">>, <<"7">>, <<"a", "b">>, <<"C">>, <<"z">>, K1}

NextApp == \E s \in SearchTerms, m \in municipalities \cup {<< >>} : AppRun(s, m)

NextEjemplo == \E m \in EntryTexts : calculate_indicators(m)

Next == NextApp \/ NextEjemplo

NextWidget ==
  \/ \E t \in TypedTexts : check_key(t)
  \/ move_down
  \/ move_up
  \/ select_from_listbox
  \/ \E i \in 0 .. (Len(suggestion_list) - 1) : on_click_select(i)
  \/ FocusOut
  \/ DelayedHide
  \/ calculate_indicators(text)

Spec == Init /\ [][Next]_vars

SpecPop == InitPop /\ [][Next]_vars

SpecHist == InitHist /\ [][NextApp]_vars

SpecWidget == InitWidget /\ [][NextWidget]_vars

\* ================================================================ claims
\* What the claims are stated over: the table shown after a completed
\* calculation, and the data read straight from the tables.
ShownRows == IF program = "app" THEN results_df ELSE tree
Ran == status \notin {"idle", "noselection"}
HasPopRow == \E i \in DOMAIN df : df[i].municipio = selected_muni
IsAbsent(x) == x = NoneV \/ x = EmptyStr
YearOf(row) == row["Año"]

\* the population cell of the selection, FALSE-guarded by HasCol
SelCells == (CHOOSE r \in Range(df) : r.municipio = selected_muni).cells
HasCol(c) == c \in DOMAIN SelCells
CellOrZero(c) == IF HasCol(c) THEN SelCells[c] ELSE 0

RECURSIVE SumOver(_, _)
SumOver(S, year) ==
  IF S = {} THEN 0
  ELSE LET a == CHOOSE x \in S : TRUE
       IN  CellOrZero(<<"total", a, "total", year>>) + SumOver(S \ {a}, year)

Bands65 == {"65_69", "70_74", "75_79", "80_84", "85_89", "90_94", "95_99", "100"}
Bands85 == {"85_89", "90_94", "95_99", "100"}
Bands0_14 == {"0_4", "5_9", "10_14"}
Bands15_64 == {"15_19", "20_24", "25_29", "30_34", "35_39", "40_44", "45_49", "50_54",
               "55_59", "60_64"}
TotalOf(year) == CellOrZero(<<"total", "total", "total", year>>)
ForeignOf(year) == CellOrZero(<<"total", "total", "EX", year>>)

\* round(num / den * mult, ndigits) for den > 0, stated arithmetically:
\* the nearest multiple of 10^-ndigits, a tie going to the even one
Rounded(num, den, mult, ndigits) ==
  LET n == num * mult * Pow10(ndigits)
      up == (2 * n + den) \div (2 * den)
  IN  Num(IF (2 * n + den) % (2 * den) = 0 /\ up % 2 = 1 THEN up - 1 ELSE up)

\* the joined records of the selection, and their cells
SelCenso ==
  IF program = "app" THEN RowsContaining(df_censo, "Municipio de residencia", selected_muni)
  ELSE RowsStartingWith(df_censo, "Municipio de residencia", FirstToken(selected_muni))
SelHog2011 == RowsContaining(df_hog_2011, "municipio", selected_muni)
SelHog2021 == RowsContaining(df_hog_2021, "municipio", selected_muni)
SelViv2011 == RowsContaining(df_censo2011, "Municipio de residencia", selected_muni)
SelDgt == DgtRows(df_dgt, selected_muni)
Has(rows, col) == rows # << >> /\ col \in DOMAIN rows[1]
RowOfYear(year) == ShownRows[CHOOSE i \in DOMAIN ShownRows : YearOf(ShownRows[i]) = year]

Gated2021 ==
  {"%Vivienda secundaria", "D.25 Viviendas por persona", "VARIACIÓN HOGARES 2011-2021 (%)",
   "CRECIMIENTO PARQUE VIVIENDAS 2011-2021 (%)", "VIVIENDA VACÍA 2011 (%)"}
Gated2024 == {"D.18.a. Vehículos domiciliados cada 1000 hab."}
Gated2023 == {"D.18.b. % Turismos", "D.18.c. % Motocicletas"}

AbsentIn(row, fields) == \A f \in fields \cap DOMAIN row : IsAbsent(row[f])

\* C1 -- Year-gating: in the row set of any municipality, a row whose year is
\* not 2021 has absent Secondary-housing %, D.25, household variation,
\* housing-stock growth and vacant-housing values; a row whose year is not
\* 2024 has an absent Vehicles-per-1000 value; a row whose year is not 2023
\* has absent % cars and % motorcycles values.
C1_YearGating ==
  status = "ok" =>
    \A i \in DOMAIN ShownRows :
      /\ YearOf(ShownRows[i]) # "2021" => AbsentIn(ShownRows[i], Gated2021)
      /\ YearOf(ShownRows[i]) # "2024" => AbsentIn(ShownRows[i], Gated2024)
      /\ YearOf(ShownRows[i]) # "2023" => AbsentIn(ShownRows[i], Gated2023)

\* a table whose 2021, 2024 and 2023 rows carry every gated value
C1_Witness ==
  /\ status = "ok" /\ program = "app"
  /\ \A f \in Gated2021 : RowOfYear("2021")[f].k = "num"
  /\ \A f \in Gated2024 : RowOfYear("2024")[f].k = "num"
  /\ \A f \in Gated2023 : RowOfYear("2023")[f].k = "num"
  /\ \A f \in Gated2021 : IsAbsent(RowOfYear("2022")[f])

\* C3 -- for every municipality with a row in the population table the
\* calculation completes and yields exactly four rows, in the order 2024,
\* 2023, 2022, 2021, whatever joined records and population columns are
\* missing.
C3_FourRowsAlways ==
  (Ran /\ HasPopRow) =>
    /\ status = "ok"
    /\ Len(ShownRows) = 4
    /\ [i \in DOMAIN ShownRows |-> YearOf(ShownRows[i])] = <<"2024", "2023", "2022", "2021">>

\* a completed calculation with no joined record at all and a population
\* table lacking a total column and a band column
C3_Witness ==
  /\ status = "ok" /\ program = "app"
  /\ SelCenso = << >> /\ SelHog2011 = << >> /\ SelHog2021 = << >>
  /\ SelViv2011 = << >> /\ SelDgt = << >>
  /\ \E y \in Range(YEARS) : ~HasCol(<<"total", "total", "total", y>>)
  /\ \E y \in Range(YEARS) : ~HasCol(<<"total", "65_69", "total", y>>)

\* C4 -- for every year Y: total(Y) = 0 makes Aging % and Foreign population %
\* unavailable, pop15_64(Y) = 0 makes D.24.a/b/c unavailable, over65(Y) = 0
\* makes Senescence % unavailable; never zero, never an error.
C4_ZeroDenominatorUnavailable ==
  (Ran /\ HasPopRow) =>
    /\ status = "ok"
    /\ \A i \in DOMAIN ShownRows :
         LET row == ShownRows[i]
             y == YearOf(row)
         IN  /\ TotalOf(y) = 0 =>
                  /\ IsAbsent(row["D.22.a. Envejecimiento (%)"])
                  /\ IsAbsent(row["Población extranjera (%)"])
             /\ SumOver(Bands15_64, y) = 0 =>
                  /\ IsAbsent(row["D.24.a. Dependencia total (%)"])
                  /\ IsAbsent(row["D.24.b. Dependencia infantil (%)"])
                  /\ IsAbsent(row["D.24.c. Dependencia mayores (%)"])
             /\ SumOver(Bands65, y) = 0 => IsAbsent(row["D.22.b. Senectud (%)"])

\* a table with a year whose total cell is 0 while people are counted in its
\* bands, a year without working-age population and a year without over-65s
C4_Witness ==
  /\ status = "ok"
  /\ \E y \in Range(YEARS) :
       /\ HasCol(<<"total", "total", "total", y>>) /\ TotalOf(y) = 0
       /\ SumOver(Bands65, y) > 0 /\ ForeignOf(y) > 0
  /\ \E y \in Range(YEARS) : SumOver(Bands15_64, y) = 0 /\ SumOver(Bands0_14, y) > 0
  /\ \E y \in Range(YEARS) : SumOver(Bands65, y) = 0 /\ TotalOf(y) > 0

\* C6 -- MunicipalityNotFound: when no population row's key equals the
\* selection exactly, no indicator row is produced, and the table shows no
\* row left over from an earlier successful selection.
C6_NotFoundShowsNoRows ==
  (Ran /\ ~HasPopRow) =>
    /\ status = "notfound"
    /\ results_df = << >>
    /\ tree = << >>

\* a not-found selection (K1 in lower case: equal to no key, though contained
\* case-insensitively) after a successful calculation set the table's columns
C6_Witness ==
  /\ program = "ejemplo" /\ status = "notfound"
  /\ selected_muni = Lower(K1)
  /\ tree_columns # {}

\* C9 -- for every year Y with total(Y) > 0, Aging(Y) is
\* round(over65(Y) / total(Y) * 100, 2), over65 being the sum of the 65+ band
\* columns that exist, a missing band contributing zero.
C9_AgingFormula ==
  (Ran /\ HasPopRow) =>
    /\ status = "ok"
    /\ \A i \in DOMAIN ShownRows :
         LET y == YearOf(ShownRows[i])
         IN  TotalOf(y) > 0 =>
               ShownRows[i]["D.22.a. Envejecimiento (%)"]
                 = Rounded(SumOver(Bands65, y), TotalOf(y), 100, 2)

\* a year with a positive total in which some 65+ band column is missing and
\* the others count people: Aging is computed from the bands that exist
C9_Witness ==
  /\ status = "ok"
  /\ \E i \in DOMAIN ShownRows :
       LET y == YearOf(ShownRows[i])
       IN  /\ TotalOf(y) > 0
           /\ \E a \in Bands65 : ~HasCol(<<"total", a, "total", y>>)
           /\ SumOver(Bands65, y) > 0
           /\ ShownRows[i]["D.22.a. Envejecimiento (%)"].k = "num"
           /\ ShownRows[i]["D.22.a. Envejecimiento (%)"].v > 0

\* C10 -- AutocompleteEntry: whenever the suggestion listbox exists it holds
\* at least one item and -1 <= cur_index < its size (so move_up / move_down
\* take no modulo by zero and select no index outside the list); and when it
\* does not exist, Up, Down and Return leave the entry's text unchanged.
C10_ListboxIndexInRange ==
  /\ [](listbox.exists =>
          /\ Len(listbox.items) >= 1
          /\ -1 <= cur_index /\ cur_index < Len(listbox.items)
          /\ -1 <= curselection /\ curselection < Len(listbox.items))
  /\ [][(~listbox.exists /\ (move_down \/ move_up \/ select_from_listbox)) => text' = text]_vars

\* Up / Down moved the selection to the last item of a two-item listbox
\* while a delayed hide is pending
C10_Witness ==
  /\ listbox.exists /\ Len(listbox.items) = 2
  /\ cur_index = 1 /\ curselection = 1
  /\ pending > 0

\* C2 -- a lookup failure makes only the affected field unavailable: every
\* indicator field whose own inputs are all present and whose own denominator
\* is non-zero gets its computed value.  In particular a missing
\* total_total_total_2024 column does not make % cars / % motorcycles absent,
\* and a missing viviendasNoP or total_total_total_2021 column does not make
\* the other of Secondary-housing % / D.25 absent.
C2_FailureIsolatedToField ==
  status = "ok" =>
    /\ \A i \in DOMAIN ShownRows :
         LET row == ShownRows[i]
             y == YearOf(row)
             total == TotalOf(y)
             over65 == SumOver(Bands65, y)
             w == SumOver(Bands15_64, y)
         IN  /\ total # 0 =>
                  /\ row["D.22.a. Envejecimiento (%)"] = Rounded(over65, total, 100, 2)
                  /\ row["Población extranjera (%)"] = Rounded(ForeignOf(y), total, 100, 2)
             /\ over65 # 0 =>
                  row["D.22.b. Senectud (%)"] = Rounded(SumOver(Bands85, y), over65, 100, 2)
             /\ w # 0 =>
                  /\ row["D.24.a. Dependencia total (%)"]
                       = Rounded(SumOver(Bands0_14, y) + over65, w, 100, 2)
                  /\ row["D.24.b. Dependencia infantil (%)"]
                       = Rounded(SumOver(Bands0_14, y), w, 100, 2)
                  /\ row["D.24.c. Dependencia mayores (%)"] = Rounded(over65, w, 100, 2)
    /\ (Has(SelCenso, "viviendasT") /\ Has(SelCenso, "viviendasNoP")
        /\ SelCenso[1]["viviendasT"] > 0) =>
         RowOfYear("2021")["%Vivienda secundaria"]
           = Rounded(SelCenso[1]["viviendasNoP"], SelCenso[1]["viviendasT"], 100, 2)
    /\ (Has(SelCenso, "viviendasT") /\ HasCol(<<"total", "total", "total", "2021">>)
        /\ TotalOf("2021") > 0) =>
         RowOfYear("2021")["D.25 Viviendas por persona"]
           = Rounded(SelCenso[1]["viviendasT"], TotalOf("2021"), 1000, 4)
    /\ program = "app" =>
         /\ (Has(SelDgt, "Parque Turismos") /\ Has(SelDgt, "Parque Total")
             /\ SelDgt[1]["Parque Total"] > 0) =>
              RowOfYear("2023")["D.18.b. % Turismos"]
                = Rounded(SelDgt[1]["Parque Turismos"], SelDgt[1]["Parque Total"], 100, 2)
         /\ (Has(SelDgt, "Parque Motocicletas") /\ Has(SelDgt, "Parque Total")
             /\ SelDgt[1]["Parque Total"] > 0) =>
              RowOfYear("2023")["D.18.c. % Motocicletas"]
                = Rounded(SelDgt[1]["Parque Motocicletas"], SelDgt[1]["Parque Total"], 100, 2)
         /\ (Has(SelDgt, "Parque Turismos") /\ Has(SelDgt, "Parque Motocicletas")
             /\ HasCol(<<"total", "total", "total", "2024">>) /\ TotalOf("2024") > 0) =>
              RowOfYear("2024")["D.18.a. Vehículos domiciliados cada 1000 hab."]
                = Rounded(SelDgt[1]["Parque Turismos"] + SelDgt[1]["Parque Motocicletas"],
                          TotalOf("2024"), 1000, 2)
         /\ (Has(SelHog2011, "nHogares") /\ Has(SelHog2021, "nHogares")
             /\ SelHog2011[1]["nHogares"] > 0) =>
              RowOfYear("2021")["VARIACIÓN HOGARES 2011-2021 (%)"]
                = Rounded(SelHog2021[1]["nHogares"] - SelHog2011[1]["nHogares"],
                          SelHog2011[1]["nHogares"], 100, 2)
         /\ (Has(SelViv2011, "viviendasTotal") /\ Has(SelCenso, "viviendasT")
             /\ SelViv2011[1]["viviendasTotal"] > 0) =>
              RowOfYear("2021")["CRECIMIENTO PARQUE VIVIENDAS 2011-2021 (%)"]
                = Rounded(SelCenso[1]["viviendasT"] - SelViv2011[1]["viviendasTotal"],
                          SelViv2011[1]["viviendasTotal"], 100, 2)
         /\ (Has(SelViv2011, "viviendasTotal") /\ Has(SelViv2011, "viviendasVacias")
             /\ SelViv2011[1]["viviendasTotal"] > 0) =>
              RowOfYear("2021")["VIVIENDA VACÍA 2011 (%)"]
                = Rounded(SelViv2011[1]["viviendasVacias"], SelViv2011[1]["viviendasTotal"],
                          100, 2)

\* C5 -- the year-gated indicators are absent whenever their denominator is
\* zero: Secondary-housing % when viviendasT = 0, D.25 when population_2021 =
\* 0, household variation when nHogares_2011 = 0, housing-stock growth and
\* vacant-housing when viviendasTotal_2011 = 0, Vehicles-per-1000 when
\* population_2024 = 0, % cars / % motorcycles when total_fleet = 0; never an
\* infinite, not-a-number or zero value.
C5_GatedZeroDenominatorAbsent ==
  status = "ok" =>
    /\ (Has(SelCenso, "viviendasT") /\ SelCenso[1]["viviendasT"] = 0) =>
         IsAbsent(RowOfYear("2021")["%Vivienda secundaria"])
    /\ TotalOf("2021") = 0 => IsAbsent(RowOfYear("2021")["D.25 Viviendas por persona"])
    /\ program = "app" =>
         /\ (Has(SelHog2011, "nHogares") /\ SelHog2011[1]["nHogares"] = 0) =>
              IsAbsent(RowOfYear("2021")["VARIACIÓN HOGARES 2011-2021 (%)"])
         /\ (Has(SelViv2011, "viviendasTotal") /\ SelViv2011[1]["viviendasTotal"] = 0) =>
              /\ IsAbsent(RowOfYear("2021")["CRECIMIENTO PARQUE VIVIENDAS 2011-2021 (%)"])
              /\ IsAbsent(RowOfYear("2021")["VIVIENDA VACÍA 2011 (%)"])
         /\ TotalOf("2024") = 0 =>
              IsAbsent(RowOfYear("2024")["D.18.a. Vehículos domiciliados cada 1000 hab."])
         /\ (Has(SelDgt, "Parque Total") /\ SelDgt[1]["Parque Total"] = 0) =>
              /\ IsAbsent(RowOfYear("2023")["D.18.b. % Turismos"])
              /\ IsAbsent(RowOfYear("2023")["D.18.c. % Motocicletas"])

\* C7 -- every source table, the long-run historical population table
\* included, is read into memory at most once per process lifetime.
C7_EachTableReadOnce == \A f \in Files : reads[f] <= 1

\* C8 -- historical series: for the first row of the long-run table whose
\* municipality field contains the selection, the extraction does not fail,
\* the output is sorted ascending by year, and the entry of year y carries
\* total = the number in column y_t, men = the number in y_h and women = the
\* number in y_m (absent when that cell is blank): no value of another year
\* is shifted into it.
FirstHistRow ==
  hist_df_raw[CHOOSE i \in DOMAIN hist_df_raw :
                /\ ContainsNoCase(hist_df_raw[i].municipio, selected_muni)
                /\ \A j \in 1 .. (i - 1) :
                     ~ContainsNoCase(hist_df_raw[j].municipio, selected_muni)]
HistCellOrAbsent(year, suffix) ==
  IF FirstHistRow.cells[<<year, suffix>>] = Blank THEN NoneV
  ELSE Num(FirstHistRow.cells[<<year, suffix>>])

C8_HistoricalSeriesByYear ==
  (status = "ok"
   /\ \E i \in DOMAIN hist_df_raw : ContainsNoCase(hist_df_raw[i].municipio, selected_muni)) =>
    /\ hist_status = "ok"
    /\ \A i \in DOMAIN hist_df : \A j \in DOMAIN hist_df :
         i < j => hist_df[i].year < hist_df[j].year
    /\ \A i \in DOMAIN hist_df :
         /\ hist_df[i].Total = HistCellOrAbsent(hist_df[i].year, "_t")
         /\ hist_df[i].Hombres = HistCellOrAbsent(hist_df[i].year, "_h")
         /\ hist_df[i].Mujeres = HistCellOrAbsent(hist_df[i].year, "_m")

====
